---- MODULE Spec2Model ----
(***************************************************************************)
(* Model of the NestTask client-side auth layer:                           *)
(*   - the Session Store Adapter (getCustomStorage in src/lib/supabase.ts):*)
(*     getItem / setItem / removeItem over IndexedDB ('supabase-auth',     *)
(*     object store 'keyval') with localStorage as the fallback mirror;    *)
(*   - the Auth Facade (src/services/auth.service.ts): loginUser with      *)
(*     retryOperation, signupUser.                                         *)
(* Every IndexedDB callback (onupgradeneeded, onsuccess, onerror,          *)
(* oncomplete) is one atomic step: JavaScript runs a callback to           *)
(* completion on the single event-loop thread.                             *)
(***************************************************************************)
EXTENDS Integers, Sequences, FiniteSets, TLC

\* ------------------------------------------------------------------ bounds
\* Number of adapter calls issued in one behaviour (each call has its own id).
MaxCalls == 3

\* Number of promises testConnection creates in one behaviour.
MaxChecks == 5
\* The clock readings (seconds) checkAndRefreshAuth may take: 1..MaxNow.
MaxNow == 2

\* ------------------------------------------------------- program constants
\* storageKey of the identity client, also the key loginUser evicts.
AuthKey == "sb-tunwmqxygoutbrwkguap-auth-token"

\* The keys the adapter is called with.
Keys == {AuthKey}

\* Session-token values (opaque strings).
Tokens == {"t1", "t2"}

\* A key that holds no entry in a store (not a JavaScript value).
Absent == "<absent>"
\* The JavaScript values null and undefined, kept apart.
Null == "null"
Undefined == "undefined"

\* The identity client is configured with storage: getCustomStorage() and
\* storageKey AuthKey (lines 143-152), so a sign-out that succeeds clears the
\* persisted session with removeItem(AuthKey).  Call 0 is that removeItem for
\* loginUser's sign-out, call -1 the one for signupUser's sign-out; calls
\* 1..MaxCalls are issued by the identity client at any other time.
LoginSignOutCall == 0
SignupSignOutCall == -1
\* Call MaxCalls + 1 is the removeItem of logoutUser's sign-out.
LogoutSignOutCall == MaxCalls + 1
CallIds == SignupSignOutCall..LogoutSignOutCall

VARIABLES
    hasIDB,            \* 'indexedDB' in window
    dbVersion,         \* version of database 'supabase-auth' (0: not created)
    objectStoreNames,  \* object stores of the database
    keyval,            \* contents of object store 'keyval': Keys -> value
    localStorage,      \* localStorage: Keys -> value
    calls,             \* adapter calls by id (their promise and callbacks)
    ncalls,            \* number of adapter calls issued so far
    txQueue,           \* live IndexedDB transactions, in creation order
    last,              \* history: the call that resolved last, and its result
    expected,          \* history: per key, the last settled write (see below)
    lsWriter           \* history: per key, the setItem call whose value
                       \* localStorage holds (NoWriter when it holds none)

storeVars == <<hasIDB, dbVersion, objectStoreNames, keyval, localStorage,
               calls, ncalls, txQueue, last, expected, lsWriter>>

VARIABLES
    login,        \* the loginUser call (its position, locals, call counts)
    signup,       \* the signupUser call
    registered,   \* identity provider: ids of the registered accounts
    users,        \* relational store: rows of table users
    trigger       \* accounts whose provider-side profile trigger has not run

authVars == <<login, signup, registered, users, trigger>>

VARIABLES
    peer,               \* a second loginUser call, concurrent with login
    isInitialized,      \* let isInitialized (supabase.ts line 139)
    connectionAttempts, \* let connectionAttempts (line 138)
    connectionPromise,  \* let connectionPromise (line 140): 0 is null
    checks,             \* the promises testConnection created, by id
    tcLast,             \* history: each caller's last testConnection call
    refresh,            \* the checkAndRefreshAuth call
    logout,             \* the logoutUser call
    reset,              \* the resetPassword call
    prefs               \* localStorage entries under other keys than AuthKey

connVars == <<isInitialized, connectionAttempts, connectionPromise, checks,
              tcLast>>
sessVars == <<refresh, logout, reset, prefs>>
extVars == <<peer, connVars, sessVars>>

\* ------------------------------------------------------- store primitives
\* localStorage.getItem(key): null when the key is absent.
LSGetItem(ls, k) == IF ls[k] = Absent THEN Null ELSE ls[k]

\* IDBObjectStore.get(key).result: undefined when the key is absent.
IDBGetResult(kv, k) == IF kv[k] = Absent THEN Undefined ELSE kv[k]

\* The durable entry for a key (Absent when the container does not exist).
DurableEntry(k) == IF "keyval" \in objectStoreNames THEN keyval[k] ELSE Absent

\* ------------------------------------------------------------ adapter calls
\* phase of a call's promise:
\*   "none"     not issued
\*   "opening"  indexedDB.open request pending
\*   "tx"       transaction created, request queued, callbacks registered
\*   "threw"    request.onsuccess threw (db.transaction on a missing store):
\*              the promise is pending and no callback is left to resolve it
\*   "aborted"  the readwrite transaction aborted; only tx.oncomplete was
\*              registered, so the promise is pending for ever
\*   "resolved" the promise resolved (what it resolved with is in last)
\* raced and racedPath (history) are the operation and the path ("txComplete",
\* "openError") of the write to the call's key that resolved last while the
\* call was pending ("none": there was none).
NoCall == [op |-> "none", key |-> AuthKey, val |-> Absent, phase |-> "none",
           expect |-> "unknown", raced |-> "none", racedPath |-> "none"]
ResolvedCall == [NoCall EXCEPT !.phase = "resolved"]

\* lsWriter of a key whose localStorage entry no setItem wrote.
NoWriter == SignupSignOutCall - 1

\* No call resolved yet.
NoLast == [id |-> NoWriter, op |-> "none", key |-> AuthKey, val |-> Absent,
           path |-> "none", result |-> Absent, expect |-> "unknown",
           durable |-> Absent, simple |-> Absent, raced |-> "none",
           racedPath |-> "none"]

Issued(c) == calls[c].phase # "none"
Resolved(c) == calls[c].phase = "resolved"
\* Pending with a callback still registered that will resolve the promise.
Live(c) == calls[c].phase \in {"opening", "tx"}
InFlight(c) == Issued(c) /\ ~Resolved(c)
IsWrite(c) == calls[c].op \in {"setItem", "removeItem"}

\* History bookkeeping for "a resolved write followed by a read with no other
\* write to the key in between".  expected[k] is "unknown" while a write to k
\* is pending or after writes overlapped; otherwise it is the value of the
\* last resolved setItem, or "removed" after the last resolved removeItem.
OtherLiveWrite(c, k) ==
    \E d \in CallIds : d # c /\ IsWrite(d) /\ calls[d].key = k /\ Live(d)

Settled(c, op, k, v) ==
    IF OtherLiveWrite(c, k) THEN "unknown"
    ELSE IF op = "setItem" THEN v ELSE "removed"

SettledBy(c) == Settled(c, calls[c].op, calls[c].key, calls[c].val)

\* A write to k starting voids what pending reads of k may expect.
VoidReads(cs, k) ==
    [d \in CallIds |->
        IF cs[d].op = "getItem" /\ cs[d].key = k /\ cs[d].phase # "resolved"
        THEN [cs[d] EXCEPT !.expect = "unknown"] ELSE cs[d]]

\* History: call c resolving along path with result r, the two stores
\* holding d and s for its key.
LastOf(c, path, r, d, s) ==
    [id |-> c, op |-> calls[c].op, key |-> calls[c].key, val |-> calls[c].val,
     path |-> path, result |-> r, expect |-> calls[c].expect,
     durable |-> d, simple |-> s, raced |-> calls[c].raced,
     racedPath |-> calls[c].racedPath]

\* The calls after write c resolved along path: the writes to its key that
\* are still pending have raced with it.
ResolveWrite(c, path) ==
    [d \in CallIds |->
        IF d = c THEN ResolvedCall
        ELSE IF IsWrite(d) /\ calls[d].key = calls[c].key /\ Live(d)
             THEN [calls[d] EXCEPT !.raced = calls[c].op, !.racedPath = path]
             ELSE calls[d]]

\* The values getItem(k) can resolve with when issued in the current state
\* and served before anything else changes the stores: the localStorage
\* fallback (no indexedDB, open error, request error) or the durable read
\* (open succeeds and 'keyval' exists, or this open creates it).
GetItemReads(k) ==
    IF ~hasIDB THEN {LSGetItem(localStorage, k)}
    ELSE {LSGetItem(localStorage, k)}
         \cup (IF dbVersion = 0 \/ "keyval" \in objectStoreNames
                THEN {IDBGetResult(keyval, k)} ELSE {})

\* ---------------------------------------------------------------- issuing
\* getItem(key) up to indexedDB.open, lines 14-19; without indexedDB the
\* localStorage read at line 57.
GetItem(c, k) ==
    /\ calls[c].phase = "none"
    /\ LET new == [NoCall EXCEPT !.op = "getItem", !.key = k,
                                 !.expect = expected[k]]
       IN
       IF hasIDB
       THEN /\ calls' = [calls EXCEPT ![c] = [new EXCEPT !.phase = "opening"]]
            /\ last' = last
       ELSE /\ calls' = [calls EXCEPT ![c] = ResolvedCall]
            /\ last' = [NoLast EXCEPT !.id = c, !.op = "getItem", !.key = k,
                           !.path = "noIDB", !.expect = expected[k],
                           !.result = LSGetItem(localStorage, k),
                           !.durable = DurableEntry(k),
                           !.simple = localStorage[k]]
    /\ UNCHANGED <<hasIDB, dbVersion, objectStoreNames, keyval, localStorage,
                   txQueue, expected, lsWriter>>

\* setItem(key, value) up to indexedDB.open, lines 60-65; without indexedDB
\* the localStorage write at line 98.
SetItem(c, k, v) ==
    /\ calls[c].phase = "none"
    /\ LET new == [NoCall EXCEPT !.op = "setItem", !.key = k, !.val = v]
           cs == VoidReads(calls, k)
       IN
       IF hasIDB
       THEN /\ calls' = [cs EXCEPT ![c] = [new EXCEPT !.phase = "opening"]]
            /\ expected' = [expected EXCEPT ![k] = "unknown"]
            /\ UNCHANGED <<localStorage, lsWriter, last>>
       ELSE /\ calls' = [cs EXCEPT ![c] = ResolvedCall]
            /\ localStorage' = [localStorage EXCEPT ![k] = v]
            /\ lsWriter' = [lsWriter EXCEPT ![k] = c]
            /\ expected' = [expected EXCEPT ![k] = Settled(c, "setItem", k, v)]
            /\ last' = [NoLast EXCEPT !.id = c, !.op = "setItem", !.key = k,
                           !.val = v, !.path = "noIDB",
                           !.durable = DurableEntry(k), !.simple = v]
    /\ UNCHANGED <<hasIDB, dbVersion, objectStoreNames, keyval, txQueue>>

\* removeItem(key) up to indexedDB.open, lines 101-106; without indexedDB
\* the localStorage removal at line 132.
RemoveItem(c, k) ==
    /\ calls[c].phase = "none"
    /\ LET new == [NoCall EXCEPT !.op = "removeItem", !.key = k]
           cs == VoidReads(calls, k)
       IN
       IF hasIDB
       THEN /\ calls' = [cs EXCEPT ![c] = [new EXCEPT !.phase = "opening"]]
            /\ expected' = [expected EXCEPT ![k] = "unknown"]
            /\ UNCHANGED <<localStorage, lsWriter, last>>
       ELSE /\ calls' = [cs EXCEPT ![c] = ResolvedCall]
            /\ localStorage' = [localStorage EXCEPT ![k] = Absent]
            /\ lsWriter' = [lsWriter EXCEPT ![k] = NoWriter]
            /\ expected' = [expected EXCEPT ![k] =
                              Settled(c, "removeItem", k, Absent)]
            /\ last' = [NoLast EXCEPT !.id = c, !.op = "removeItem",
                           !.key = k, !.path = "noIDB",
                           !.durable = DurableEntry(k), !.simple = Absent]
    /\ UNCHANGED <<hasIDB, dbVersion, objectStoreNames, keyval, txQueue>>

\* ------------------------------------------------------------- open request
\* Which operations register request.onupgradeneeded (it creates 'keyval').
HasUpgradeHandler(op) == op \in {"getItem", "setItem"}

\* indexedDB.open('supabase-auth', 1) succeeding for call c: when the
\* database does not exist it is created at version 1 and upgradeneeded fires
\* first; then request.onsuccess runs db.transaction('keyval', ...), which
\* throws NotFoundError inside the callback when the store is missing.
Opened(c) ==
    /\ calls[c].phase = "opening"
    /\ LET names == IF dbVersion = 0 /\ HasUpgradeHandler(calls[c].op)
                    THEN objectStoreNames \cup {"keyval"}
                    ELSE objectStoreNames
       IN
       /\ dbVersion' = 1
       /\ objectStoreNames' = names
       /\ IF "keyval" \in names
          THEN /\ calls' = [calls EXCEPT ![c].phase = "tx"]
               /\ txQueue' = Append(txQueue, c)
          ELSE /\ calls' = [calls EXCEPT ![c].phase = "threw"]
               /\ txQueue' = txQueue

\* request.onupgradeneeded and request.onsuccess of getItem, lines 21-45.
GetOnSuccess(c) ==
    /\ calls[c].op = "getItem"
    /\ Opened(c)
    /\ UNCHANGED <<hasIDB, keyval, localStorage, last, expected, lsWriter>>
    /\ UNCHANGED <<ncalls, authVars>>
    /\ UNCHANGED extVars

\* A variant of SetOnSuccess that mirrors the value into localStorage right
\* after store.put, before the transaction completes.
SetOnSuccessEager(c) ==
    /\ calls[c].op = "setItem"
    /\ Opened(c)
    /\ localStorage' = [localStorage EXCEPT ![calls[c].key] = calls[c].val]
    /\ lsWriter' = [lsWriter EXCEPT ![calls[c].key] = c]
    /\ UNCHANGED <<hasIDB, keyval, last, expected>>
    /\ UNCHANGED <<ncalls, authVars>>
    /\ UNCHANGED extVars

\* request.onupgradeneeded and request.onsuccess of setItem, lines 67-85.
SetOnSuccess(c) ==
    /\ calls[c].op = "setItem"
    /\ Opened(c)
    /\ UNCHANGED <<hasIDB, keyval, localStorage, last, expected, lsWriter>>
    /\ UNCHANGED <<ncalls, authVars>>
    /\ UNCHANGED extVars

\* request.onsuccess of removeItem, lines 108-119 (no onupgradeneeded).
RemoveOnSuccess(c) ==
    /\ calls[c].op = "removeItem"
    /\ Opened(c)
    /\ UNCHANGED <<hasIDB, keyval, localStorage, last, expected, lsWriter>>
    /\ UNCHANGED <<ncalls, authVars>>
    /\ UNCHANGED extVars

\* request.onerror of getItem, lines 47-49.
GetOpenError(c) ==
    /\ calls[c].phase = "opening" /\ calls[c].op = "getItem"
    /\ calls' = [calls EXCEPT ![c] = ResolvedCall]
    /\ last' = LastOf(c, "openError", LSGetItem(localStorage, calls[c].key),
                      DurableEntry(calls[c].key), localStorage[calls[c].key])
    /\ UNCHANGED <<hasIDB, dbVersion, objectStoreNames, keyval, localStorage,
                   txQueue, expected, lsWriter>>
    /\ UNCHANGED <<ncalls, authVars>>
    /\ UNCHANGED extVars

\* request.onerror of setItem, lines 87-90.
SetOpenError(c) ==
    /\ calls[c].phase = "opening" /\ calls[c].op = "setItem"
    /\ localStorage' = [localStorage EXCEPT ![calls[c].key] = calls[c].val]
    /\ lsWriter' = [lsWriter EXCEPT ![calls[c].key] = c]
    /\ expected' = [expected EXCEPT ![calls[c].key] = SettledBy(c)]
    /\ calls' = ResolveWrite(c, "openError")
    /\ last' = LastOf(c, "openError", Absent,
                      DurableEntry(calls[c].key), calls[c].val)
    /\ UNCHANGED <<hasIDB, dbVersion, objectStoreNames, keyval, txQueue>>
    /\ UNCHANGED <<ncalls, authVars>>
    /\ UNCHANGED extVars

\* request.onerror of removeItem, lines 121-124.
RemoveOpenError(c) ==
    /\ calls[c].phase = "opening" /\ calls[c].op = "removeItem"
    /\ localStorage' = [localStorage EXCEPT ![calls[c].key] = Absent]
    /\ lsWriter' = [lsWriter EXCEPT ![calls[c].key] = NoWriter]
    /\ expected' = [expected EXCEPT ![calls[c].key] = SettledBy(c)]
    /\ calls' = ResolveWrite(c, "openError")
    /\ last' = LastOf(c, "openError", Absent,
                      DurableEntry(calls[c].key), Absent)
    /\ UNCHANGED <<hasIDB, dbVersion, objectStoreNames, keyval, txQueue>>
    /\ UNCHANGED <<ncalls, authVars>>
    /\ UNCHANGED extVars

\* -------------------------------------------------------------- transaction
\* Transactions on the one object store run in the order they were created.
AtHead(c) == calls[c].phase = "tx" /\ txQueue # <<>> /\ Head(txQueue) = c

\* getRequest.onsuccess of getItem, lines 34-36: resolves with the request's
\* result as it is (undefined for a missing key).
GetRequestSuccess(c) ==
    /\ AtHead(c) /\ calls[c].op = "getItem"
    /\ calls' = [calls EXCEPT ![c] = ResolvedCall]
    /\ last' = LastOf(c, "requestSuccess", IDBGetResult(keyval, calls[c].key),
                      keyval[calls[c].key], localStorage[calls[c].key])
    /\ txQueue' = Tail(txQueue)
    /\ UNCHANGED <<hasIDB, dbVersion, objectStoreNames, keyval, localStorage,
                   expected, lsWriter>>
    /\ UNCHANGED <<ncalls, authVars>>
    /\ UNCHANGED extVars

\* getRequest.onerror of getItem, lines 38-40 (a failed request, also when
\* its transaction aborts).
GetRequestError(c) ==
    /\ AtHead(c) /\ calls[c].op = "getItem"
    /\ calls' = [calls EXCEPT ![c] = ResolvedCall]
    /\ last' = LastOf(c, "requestError", LSGetItem(localStorage, calls[c].key),
                      keyval[calls[c].key], localStorage[calls[c].key])
    /\ txQueue' = Tail(txQueue)
    /\ UNCHANGED <<hasIDB, dbVersion, objectStoreNames, keyval, localStorage,
                   expected, lsWriter>>
    /\ UNCHANGED <<ncalls, authVars>>
    /\ UNCHANGED extVars

\* store.put(value, key) committed, then tx.oncomplete of setItem, lines 78-84.
SetTxComplete(c) ==
    /\ AtHead(c) /\ calls[c].op = "setItem"
    /\ keyval' = [keyval EXCEPT ![calls[c].key] = calls[c].val]
    /\ localStorage' = [localStorage EXCEPT ![calls[c].key] = calls[c].val]
    /\ lsWriter' = [lsWriter EXCEPT ![calls[c].key] = c]
    /\ expected' = [expected EXCEPT ![calls[c].key] = SettledBy(c)]
    /\ calls' = ResolveWrite(c, "txComplete")
    /\ last' = LastOf(c, "txComplete", Absent, keyval'[calls[c].key],
                      localStorage'[calls[c].key])
    /\ txQueue' = Tail(txQueue)
    /\ UNCHANGED <<hasIDB, dbVersion, objectStoreNames>>
    /\ UNCHANGED <<ncalls, authVars>>
    /\ UNCHANGED extVars

\* store.delete(key) committed, then tx.oncomplete of removeItem, lines 112-118.
RemoveTxComplete(c) ==
    /\ AtHead(c) /\ calls[c].op = "removeItem"
    /\ keyval' = [keyval EXCEPT ![calls[c].key] = Absent]
    /\ localStorage' = [localStorage EXCEPT ![calls[c].key] = Absent]
    /\ lsWriter' = [lsWriter EXCEPT ![calls[c].key] = NoWriter]
    /\ expected' = [expected EXCEPT ![calls[c].key] = SettledBy(c)]
    /\ calls' = ResolveWrite(c, "txComplete")
    /\ last' = LastOf(c, "txComplete", Absent, keyval'[calls[c].key],
                      localStorage'[calls[c].key])
    /\ txQueue' = Tail(txQueue)
    /\ UNCHANGED <<hasIDB, dbVersion, objectStoreNames>>
    /\ UNCHANGED <<ncalls, authVars>>
    /\ UNCHANGED extVars

\* The readwrite transaction of setItem (76-84) or removeItem (110-118) fails:
\* the put/delete request errors or the transaction aborts.  Neither registers
\* tx.onerror, tx.onabort or a request.onerror, so nothing runs.
TxAbort(c) ==
    /\ AtHead(c) /\ IsWrite(c)
    /\ calls' = [calls EXCEPT ![c].phase = "aborted"]
    /\ txQueue' = Tail(txQueue)
    /\ UNCHANGED <<hasIDB, dbVersion, objectStoreNames, keyval, localStorage,
                   last, expected, lsWriter>>
    /\ UNCHANGED <<ncalls, authVars>>
    /\ UNCHANGED extVars

\* One callback of call c.
Callback(c) ==
    \/ GetOnSuccess(c)
    \/ SetOnSuccess(c)
    \/ RemoveOnSuccess(c)
    \/ GetOpenError(c)
    \/ SetOpenError(c)
    \/ RemoveOpenError(c)
    \/ GetRequestSuccess(c)
    \/ GetRequestError(c)
    \/ SetTxComplete(c)
    \/ RemoveTxComplete(c)
    \/ TxAbort(c)

\* One callback of a removeItem call c.
RemoveCallback(c) ==
    \/ RemoveOnSuccess(c)
    \/ RemoveOpenError(c)
    \/ RemoveTxComplete(c)
    \/ TxAbort(c)

\* =========================================================== Auth Facade

\* retryOperation(operation, maxRetries = 3, delay = 500)
maxRetries == 3
delay == 500

NoError == [status |-> 0, message |-> "", code |-> ""]

\* Errors the identity provider reports.
ErrRateLimit == [status |-> 429, message |-> "Request rate limit reached",
                 code |-> "over_request_rate_limit"]
ErrNetwork == [status |-> 0, message |-> "network request failed", code |-> ""]
ErrTimeout == [status |-> 0, message |-> "connect timed out", code |-> "ETIMEDOUT"]
ErrInvalid == [status |-> 400, message |-> "Invalid login credentials",
               code |-> "invalid_credentials"]
ProviderErrors == {ErrRateLimit, ErrNetwork, ErrTimeout, ErrInvalid}

\* new Error(message)
NewError(m) == [status |-> 0, message |-> m, code |-> ""]

\* error.message.includes('network')
IncludesNetwork(m) == m \in {"network request failed"}

\* The retry test of retryOperation's catch block, lines 21-29.
IsTransient(e) ==
    \/ e.status = 429
    \/ IncludesNetwork(e.message)
    \/ e.code = "ETIMEDOUT"

\* setTimeout(resolve, delay * attempt), line 30.
BackoffDelay(attempt) == delay * attempt

\* How one call of supabase.auth.signInWithPassword ends: it resolves with
\* {data: {user}, error: null}, resolves with {data: {user: null}, error}
\* (the value loginUser destructures at line 63), or throws.
SignInOutcomes ==
    {[how |-> "user", err |-> NoError], [how |-> "noUser", err |-> NoError]}
    \cup {[how |-> "returned", err |-> e] : e \in ProviderErrors}
    \cup {[how |-> "thrown", err |-> e] : e \in ProviderErrors}

\* History: what an attempt of the sign-in was, for the record of attempts.
Attempt(o) ==
    [how |-> o.how, transient |-> o.how \in {"returned", "thrown"} /\ IsTransient(o.err)]

\* user_metadata.role of an account ("u2" is the account signupUser creates,
\* with data.role 'user'; "u1" was registered without metadata).
MetaRole(u) == IF u = "u2" THEN "user" ELSE Absent

\* idCalls and dbCalls count the calls this loginUser call made to the
\* identity client and to the relational store; log and waits record the
\* sign-in attempts and the backoff delays; quiet records that no setItem
\* was pending when the call began and that none was issued since; insert
\* and update record how the insert of the profile row and the update of
\* last_active ended ("none": not issued).
LoginIdle == [pc |-> "idle", email |-> FALSE, password |-> FALSE,
              attempt |-> 1, user |-> Absent, error |-> NoError,
              result |-> Absent, idCalls |-> 0, dbCalls |-> 0,
              log |-> <<>>, waits |-> <<>>, quiet |-> TRUE,
              insert |-> "none", raised |-> NoError, update |-> "none"]

\* A variant of LoginFieldsMissing that forgets the password.
LoginFieldsMissingEmailOnly(e, p) == ~e

\* if (!email || !password), line 47.
LoginFieldsMissing(e, p) == ~e \/ ~p

HasRow(u) == \E r \in users : r.id = u
RowOf(u) == CHOOSE r \in users : r.id = u

\* The messages the facade itself puts into new Error(...).
FacadeMessages ==
    {"Email and password are required", "No user data received",
     "Failed to fetch user profile", "Failed to create user profile",
     "No profile data received after creation", "All fields are required",
     "Email is required"}

\* getAuthErrorMessage(error) of utils/authErrors: the provider-error-to-
\* message mapping.  Provider errors map to a user-readable message by
\* status and code, the facade's own messages are user-readable as they are,
\* anything else gets the generic message.
GetAuthErrorMessage(e) ==
    IF e.status = 429 THEN "Too many attempts. Please try again later."
    ELSE IF e.code = "ETIMEDOUT" \/ IncludesNetwork(e.message)
         THEN "Network error. Please check your connection."
    ELSE IF e.code = "invalid_credentials" THEN "Invalid email or password"
    ELSE IF e.code = "user_already_exists" THEN "Email already registered"
    ELSE IF e.status = 0 /\ e.code = "" /\ e.message \in FacadeMessages
         THEN e.message
    ELSE "An unexpected error occurred. Please try again."

\* A variant of LoginThrow that rethrows what the catch block received.
LoginThrowRaw(l, e) == [l EXCEPT !.pc = "rejected", !.error = e, !.raised = e]

\* catch (error) { throw new Error(getAuthErrorMessage(error)) }, 137-140:
\* the call ends rejected; error is what the catch block received, raised
\* what the caller receives.
LoginThrow(l, e) ==
    [l EXCEPT !.pc = "rejected", !.error = e,
              !.raised = NewError(GetAuthErrorMessage(e))]

\* retryOperation calls operation(): signInWithPassword is issued, line 15/64.
EnterSignIn(l) == [l EXCEPT !.pc = "signIn", !.idCalls = @ + 1]

\* loginUser({email, password}) up to its first await, lines 45-56: the
\* required-field check, the eviction of the cached token from localStorage
\* and the call of supabase.auth.signOut({scope: 'local'}).
LoginUser(e, p) ==
    /\ login.pc \in {"idle", "returned", "rejected"}
    /\ LET l == [LoginIdle EXCEPT !.email = e, !.password = p]
           cs == [calls EXCEPT ![LoginSignOutCall] = NoCall]
       IN
       IF LoginFieldsMissing(e, p)
       THEN /\ login' = LoginThrow(l, NewError("Email and password are required"))
            /\ UNCHANGED <<calls, localStorage, expected, lsWriter>>
       ELSE /\ login' = [l EXCEPT !.pc = "signOut", !.idCalls = 1,
                             !.quiet = \A c \in CallIds :
                                         ~(calls[c].op = "setItem" /\ Live(c))]
            /\ localStorage' = [localStorage EXCEPT ![AuthKey] = Absent]
            /\ expected' = [expected EXCEPT ![AuthKey] = "unknown"]
            /\ lsWriter' = [lsWriter EXCEPT ![AuthKey] = NoWriter]
            /\ calls' = VoidReads(cs, AuthKey)
    /\ UNCHANGED <<hasIDB, dbVersion, objectStoreNames, keyval, ncalls,
                   txQueue, last>>
    /\ UNCHANGED <<signup, registered, users, trigger>>
    /\ UNCHANGED extVars

\* The pre-login sign-out fails (it throws, lines 57-60, or resolves with an
\* error nobody reads): nothing is removed, login goes on.
LoginSignOutFails ==
    /\ login.pc = "signOut"
    /\ login' = EnterSignIn(login)
    /\ UNCHANGED storeVars
    /\ UNCHANGED <<signup, registered, users, trigger>>
    /\ UNCHANGED extVars

\* The pre-login sign-out clears the persisted session through the adapter.
LoginSignOutRemoves ==
    /\ login.pc = "signOut"
    /\ RemoveItem(LoginSignOutCall, AuthKey)
    /\ login' = [login EXCEPT !.pc = "signOutWait"]
    /\ UNCHANGED ncalls
    /\ UNCHANGED <<signup, registered, users, trigger>>
    /\ UNCHANGED extVars

\* await supabase.auth.signOut(...) returns once the removal resolved.
LoginSignOutDone ==
    /\ login.pc = "signOutWait"
    /\ Resolved(LoginSignOutCall)
    /\ login' = EnterSignIn(login)
    /\ UNCHANGED storeVars
    /\ UNCHANGED <<signup, registered, users, trigger>>
    /\ UNCHANGED extVars

\* One pass of retryOperation's loop, lines 13-36, and what loginUser does
\* with the value it returns, lines 67-74.
LoginSignIn(o) ==
    /\ login.pc = "signIn"
    /\ o.how = "user" => registered # {}
    /\ LET l == [login EXCEPT !.log = Append(@, Attempt(o))] IN
       \/ /\ o.how = "user"
          /\ \E u \in registered :
                login' = [l EXCEPT !.pc = "profile", !.user = u, !.dbCalls = 1]
       \/ /\ o.how = "noUser"
          /\ login' = LoginThrow(l, NewError("No user data received"))
       \/ /\ o.how = "returned"
          /\ login' = LoginThrow(l, o.err)
       \/ /\ o.how = "thrown"
          /\ IF IsTransient(o.err)
             THEN login' = [l EXCEPT !.pc = "backoff", !.error = o.err,
                               !.waits = Append(@, BackoffDelay(login.attempt))]
             ELSE login' = LoginThrow(l, o.err)
    /\ UNCHANGED storeVars
    /\ UNCHANGED <<signup, registered, users, trigger>>
    /\ UNCHANGED extVars

\* The backoff timer fires: continue, and after the last attempt leave the
\* loop and throw lastError (line 39).
LoginBackoffDone ==
    /\ login.pc = "backoff"
    /\ IF login.attempt + 1 <= maxRetries
       THEN login' = EnterSignIn([login EXCEPT !.attempt = @ + 1])
       ELSE login' = LoginThrow([login EXCEPT !.attempt = @ + 1], login.error)
    /\ UNCHANGED storeVars
    /\ UNCHANGED <<signup, registered, users, trigger>>
    /\ UNCHANGED extVars

\* The profile query .from('users').select().eq('id', id).single() ends,
\* lines 77-87 and 119-127: the row, the "no rows" error PGRST116, or
\* another error.
LoginProfile(o) ==
    /\ login.pc = "profile"
    /\ \/ /\ o = "row" /\ HasRow(login.user)
          /\ login' = [login EXCEPT !.pc = "update", !.dbCalls = @ + 1]
       \/ /\ o = "PGRST116" /\ ~HasRow(login.user)
          /\ login' = [login EXCEPT !.pc = "insert", !.dbCalls = @ + 1]
       \/ /\ o = "error"
          /\ login' = LoginThrow(login, NewError("Failed to fetch user profile"))
    /\ UNCHANGED storeVars
    /\ UNCHANGED <<signup, registered, users, trigger>>
    /\ UNCHANGED extVars

\* How the insert of the profile row can end.
InsertOutcomes == {"row", "noData", "duplicate", "error"}

\* A variant of LoginRow that makes up the id locally.
LoginRowLocalId(u) ==
    [id |-> "local-1", role |-> IF MetaRole(u) = Absent THEN "user" ELSE MetaRole(u)]

\* The row loginUser inserts, lines 90-97.
LoginRow(u) ==
    [id |-> u, role |-> IF MetaRole(u) = Absent THEN "user" ELSE MetaRole(u)]

\* The insert(...).select().single() ends, lines 88-117: the row is stored
\* and returned ("row"), stored and not returned ("noData"), refused because
\* a row with this id exists ("duplicate": id is the key of table users), or
\* the store fails ("error").  The last two are a createError alike.
LoginInsert(o) ==
    /\ login.pc = "insert"
    /\ LET l == [login EXCEPT !.insert = o] IN
       \/ /\ o = "row" /\ ~HasRow(login.user)
          /\ users' = users \cup {LoginRow(login.user)}
          /\ login' = [l EXCEPT !.pc = "returned",
                                !.result = LoginRow(login.user)]
       \/ /\ o = "noData" /\ ~HasRow(login.user)
          /\ users' = users \cup {LoginRow(login.user)}
          /\ login' = LoginThrow(l,
                         NewError("No profile data received after creation"))
       \/ /\ o = "duplicate" /\ HasRow(login.user)
          /\ users' = users
          /\ login' = LoginThrow(l, NewError("Failed to create user profile"))
       \/ /\ o = "error"
          /\ users' = users
          /\ login' = LoginThrow(l, NewError("Failed to create user profile"))
    /\ UNCHANGED storeVars
    /\ UNCHANGED <<signup, registered, trigger>>
    /\ UNCHANGED extVars

\* A variant of LoginUpdate that reads the update's error and throws it.
LoginUpdateChecked(o) ==
    /\ login.pc = "update"
    /\ o \in {"ok", "error"} /\ HasRow(login.user)
    /\ IF o = "ok"
       THEN login' = [login EXCEPT !.pc = "returned", !.update = o,
                                   !.result = RowOf(login.user)]
       ELSE login' = LoginThrow([login EXCEPT !.update = o], ErrNetwork)
    /\ UNCHANGED storeVars
    /\ UNCHANGED <<signup, registered, users, trigger>>
    /\ UNCHANGED extVars

\* The update of last_active ends, lines 124-136.  The query resolves with
\* {data, error}, as the queries of lines 77 and 88 do, and nothing reads it.
LoginUpdate(o) ==
    /\ login.pc = "update"
    /\ o \in {"ok", "error"} /\ HasRow(login.user)
    /\ login' = [login EXCEPT !.pc = "returned", !.update = o,
                              !.result = RowOf(login.user)]
    /\ UNCHANGED storeVars
    /\ UNCHANGED <<signup, registered, users, trigger>>
    /\ UNCHANGED extVars

\* ------------------------------------------- a second, concurrent loginUser
\* loginUser is not mutually exclusive: a second call can run while the first
\* is between two awaits.  peer is that call from line 76 on, where its
\* sign-in has returned an account; what it did before (lines 45-74, as
\* LoginUser .. LoginSignIn for the first call) touches the two stores only.
PeerIdle == [pc |-> "idle", user |-> Absent, error |-> NoError,
             result |-> Absent, dbCalls |-> 0, insert |-> "none",
             raised |-> NoError]

\* The second call's sign-in returned account u; its profile query is issued.
PeerSignIn(u) ==
    /\ peer.pc \in {"idle", "returned", "rejected"}
    /\ u \in registered
    /\ peer' = [PeerIdle EXCEPT !.pc = "profile", !.user = u, !.dbCalls = 1]
    /\ UNCHANGED <<storeVars, authVars, connVars, sessVars>>

\* The second call's profile query ends, lines 77-87 and 119-127.
PeerProfile(o) ==
    /\ peer.pc = "profile"
    /\ \/ /\ o = "row" /\ HasRow(peer.user)
          /\ peer' = [peer EXCEPT !.pc = "update", !.dbCalls = @ + 1]
       \/ /\ o = "PGRST116" /\ ~HasRow(peer.user)
          /\ peer' = [peer EXCEPT !.pc = "insert", !.dbCalls = @ + 1]
       \/ /\ o = "error"
          /\ peer' = LoginThrow(peer, NewError("Failed to fetch user profile"))
    /\ UNCHANGED <<storeVars, authVars, connVars, sessVars>>

\* The second call's insert ends, lines 88-117.
PeerInsert(o) ==
    /\ peer.pc = "insert"
    /\ LET l == [peer EXCEPT !.insert = o] IN
       \/ /\ o = "row" /\ ~HasRow(peer.user)
          /\ users' = users \cup {LoginRow(peer.user)}
          /\ peer' = [l EXCEPT !.pc = "returned", !.result = LoginRow(peer.user)]
       \/ /\ o = "noData" /\ ~HasRow(peer.user)
          /\ users' = users \cup {LoginRow(peer.user)}
          /\ peer' = LoginThrow(l,
                        NewError("No profile data received after creation"))
       \/ /\ o = "duplicate" /\ HasRow(peer.user)
          /\ users' = users
          /\ peer' = LoginThrow(l, NewError("Failed to create user profile"))
       \/ /\ o = "error"
          /\ users' = users
          /\ peer' = LoginThrow(l, NewError("Failed to create user profile"))
    /\ UNCHANGED <<storeVars, login, signup, registered, trigger, connVars,
                   sessVars>>

\* The second call's update of last_active ends, lines 124-136.
PeerUpdate(o) ==
    /\ peer.pc = "update"
    /\ o \in {"ok", "error"} /\ HasRow(peer.user)
    /\ peer' = [peer EXCEPT !.pc = "returned", !.result = RowOf(peer.user)]
    /\ UNCHANGED <<storeVars, authVars, connVars, sessVars>>

\* ---------------------------------------------------------------- signupUser
SignupFields == {"email", "password", "name", "phone", "studentId"}

ErrRegistered == [status |-> 422, message |-> "User already registered",
                  code |-> "user_already_exists"]

\* The provider's database rejected the new account's email as a duplicate.
ErrDuplicate ==
    [status |-> 500,
     message |-> "duplicate key value violates unique constraint \"users_email_key\"",
     code |-> "unexpected_failure"]

SignUpOutcomes ==
    {[how |-> "user", err |-> NoError], [how |-> "noUser", err |-> NoError]}
    \cup {[how |-> h, err |-> e] :
             h \in {"returned", "thrown"},
             e \in {ErrRegistered, ErrDuplicate, ErrNetwork}}

\* The argument lists the model calls signupUser with: complete, one field
\* missing, nothing filled in.
SignupInputs ==
    {SignupFields, {}} \cup {SignupFields \ {f} : f \in SignupFields}

SignupIdle == [pc |-> "idle", fields |-> {}, user |-> Absent,
               error |-> NoError, result |-> Absent,
               idCalls |-> 0, dbCalls |-> 0, signOuts |-> 0,
               scope |-> "none", raised |-> NoError, insert |-> "none"]

\* if (!email || !password || !name || !phone || !studentId), line 145.
SignupFieldsMissing(present) == present # SignupFields

\* error.message?.includes('duplicate key'), line 221.
IncludesDuplicateKey(m) ==
    m \in {"duplicate key value violates unique constraint \"users_pkey\"",
           "duplicate key value violates unique constraint \"users_email_key\""}

\* error.message?.includes('already registered'), line 222.
IncludesAlreadyRegistered(m) == m \in {"User already registered"}

\* A variant of SignupThrow without the test of lines 221-224.
SignupThrowGeneric(s, e) ==
    [s EXCEPT !.pc = "rejected", !.error = e,
              !.raised = NewError(GetAuthErrorMessage(e))]

\* catch (error) of signupUser, lines 219-226: the call ends rejected.
SignupThrow(s, e) ==
    [s EXCEPT !.pc = "rejected", !.error = e,
              !.raised = IF IncludesDuplicateKey(e.message)
                            \/ IncludesAlreadyRegistered(e.message)
                         THEN NewError("Email already registered")
                         ELSE NewError(GetAuthErrorMessage(e))]

\* signupUser(...) up to its first await, lines 143-160.
SignupUser(present) ==
    /\ signup.pc \in {"idle", "returned", "rejected"}
    /\ LET s == [SignupIdle EXCEPT !.fields = present] IN
       IF SignupFieldsMissing(present)
       THEN /\ signup' = SignupThrow(s, NewError("All fields are required"))
            /\ calls' = calls
       ELSE /\ signup' = [s EXCEPT !.pc = "signUp", !.idCalls = 1]
            /\ calls' = [calls EXCEPT ![SignupSignOutCall] = NoCall]
    /\ UNCHANGED <<hasIDB, dbVersion, objectStoreNames, keyval, localStorage,
                   ncalls, txQueue, last, expected, lsWriter>>
    /\ UNCHANGED <<login, registered, users, trigger>>
    /\ UNCHANGED extVars

\* supabase.auth.signUp ends, lines 149-166; on success the account "u2"
\* exists and the provider-side trigger is due.
SignupSignUp(o) ==
    /\ signup.pc = "signUp"
    /\ \/ /\ o.how = "user" /\ "u2" \notin registered
          /\ registered' = registered \cup {"u2"}
          /\ trigger' = trigger \cup {"u2"}
          /\ signup' = [signup EXCEPT !.pc = "wait", !.user = "u2"]
       \/ /\ o.how = "noUser"
          /\ signup' = SignupThrow(signup, NewError("No user data received"))
          /\ UNCHANGED <<registered, trigger>>
       \/ /\ o.how \in {"returned", "thrown"}
          /\ signup' = SignupThrow(signup, o.err)
          /\ UNCHANGED <<registered, trigger>>
    /\ UNCHANGED storeVars
    /\ UNCHANGED <<login, users>>
    /\ UNCHANGED extVars

\* The 1000 ms timer fires and the profile query is issued, lines 166-172.
SignupWaitDone ==
    /\ signup.pc = "wait"
    /\ signup' = [signup EXCEPT !.pc = "select", !.dbCalls = @ + 1]
    /\ UNCHANGED storeVars
    /\ UNCHANGED <<login, registered, users, trigger>>
    /\ UNCHANGED extVars

\* The row signupUser inserts, lines 183-190.
SignupRow(u) == [id |-> u, role |-> "user"]

\* The profile query ends, lines 174-183 and 210-218.
SignupSelect(o) ==
    /\ signup.pc = "select"
    /\ \/ /\ o = "rows" /\ HasRow(signup.user)
          /\ signup' = [signup EXCEPT !.pc = "returned",
                                      !.result = RowOf(signup.user)]
       \/ /\ o = "rows" /\ ~HasRow(signup.user)
          /\ signup' = [signup EXCEPT !.pc = "insert", !.dbCalls = @ + 1]
       \/ /\ o = "error"
          /\ signup' = SignupThrow(signup, NewError("Failed to fetch user profile"))
    /\ UNCHANGED storeVars
    /\ UNCHANGED <<login, registered, users, trigger>>
    /\ UNCHANGED extVars

\* A variant of SignupInsert that throws on createError without signing out.
SignupInsertNoSignOut(o) ==
    /\ signup.pc = "insert"
    /\ \/ /\ o = "row" /\ ~HasRow(signup.user)
          /\ users' = users \cup {SignupRow(signup.user)}
          /\ signup' = [signup EXCEPT !.pc = "returned", !.insert = o,
                                      !.result = SignupRow(signup.user)]
       \/ /\ o = "error"
          /\ users' = users
          /\ signup' = SignupThrow([signup EXCEPT !.insert = o],
                                   NewError("Failed to create user profile"))
    /\ UNCHANGED storeVars
    /\ UNCHANGED <<login, registered, trigger>>
    /\ UNCHANGED extVars

\* The insert ends, lines 181-207; on createError supabase.auth.signOut() is
\* called (line 195) with no scope argument: the client's default, a global
\* sign-out, not {scope: 'local'} as at lines 56 and 231.
SignupInsert(o) ==
    /\ signup.pc = "insert"
    /\ \/ /\ o = "row" /\ ~HasRow(signup.user)
          /\ users' = users \cup {SignupRow(signup.user)}
          /\ signup' = [signup EXCEPT !.pc = "returned", !.insert = o,
                                      !.result = SignupRow(signup.user)]
       \/ /\ o = "error"
          /\ users' = users
          /\ signup' = [signup EXCEPT !.pc = "signOut", !.idCalls = @ + 1,
                                      !.insert = o,
                                      !.signOuts = @ + 1, !.scope = "global"]
    /\ UNCHANGED storeVars
    /\ UNCHANGED <<login, registered, trigger>>
    /\ UNCHANGED extVars

\* The compensating sign-out throws: that error reaches the catch block.
SignupSignOutThrows ==
    /\ signup.pc = "signOut"
    /\ signup' = SignupThrow(signup, ErrNetwork)
    /\ UNCHANGED storeVars
    /\ UNCHANGED <<login, registered, users, trigger>>
    /\ UNCHANGED extVars

\* The compensating sign-out resolves with an error nobody reads, line 195.
SignupSignOutFails ==
    /\ signup.pc = "signOut"
    /\ signup' = SignupThrow(signup, NewError("Failed to create user profile"))
    /\ UNCHANGED storeVars
    /\ UNCHANGED <<login, registered, users, trigger>>
    /\ UNCHANGED extVars

\* The compensating sign-out clears the persisted session through the adapter.
SignupSignOutRemoves ==
    /\ signup.pc = "signOut"
    /\ RemoveItem(SignupSignOutCall, AuthKey)
    /\ signup' = [signup EXCEPT !.pc = "signOutWait"]
    /\ UNCHANGED ncalls
    /\ UNCHANGED <<login, registered, users, trigger>>
    /\ UNCHANGED extVars

\* await supabase.auth.signOut() returns; line 196 throws.
SignupSignOutDone ==
    /\ signup.pc = "signOutWait"
    /\ Resolved(SignupSignOutCall)
    /\ signup' = SignupThrow(signup, NewError("Failed to create user profile"))
    /\ UNCHANGED storeVars
    /\ UNCHANGED <<login, registered, users, trigger>>
    /\ UNCHANGED extVars

\* The provider-side trigger materialises the profile row of a new account
\* (the row signupUser waits for at line 166).
TriggerCreatesProfile ==
    /\ \E u \in trigger :
          /\ users' = IF HasRow(u) THEN users ELSE users \cup {SignupRow(u)}
          /\ trigger' = trigger \ {u}
    /\ UNCHANGED storeVars
    /\ UNCHANGED <<login, signup, registered>>
    /\ UNCHANGED extVars

\* ----------------------------------------------------------- testConnection
\* The callers of testConnection: the load-time timer of lines 253-255 and
\* the application.
Callers == {"load", "app"}

\* A promise testConnection has not created yet.  state is "none", "pending"
\* (the metadata query is in flight) or "resolved"; value is what it resolved
\* with; probe tells whether it issued a query; timer is the timeout of lines
\* 243-245: "none", "armed" or "fired".
NoCheck == [state |-> "none", value |-> FALSE, probe |-> FALSE,
            timer |-> "none"]

\* No testConnection call yet.  how is the path the call took ("cached":
\* line 211, "joined": line 214, "created": lines 217-249), check the promise
\* it was handed (0: none), n alternates with every call of the caller.
NoTc == [how |-> "none", check |-> 0, n |-> 0]

\* The checks whose metadata query is in flight.
Probing == {p \in 1..MaxChecks : checks[p].state = "pending"}

\* The promises not created yet; testConnection takes them in order.
FreeChecks == {p \in 1..MaxChecks : checks[p].state = "none"}
NewCheck == CHOOSE p \in FreeChecks : \A q \in FreeChecks : p <= q

\* What caller c's last call has resolved with so far (Absent: still pending).
TcResult(c) ==
    IF tcLast[c].how = "cached" THEN TRUE
    ELSE IF tcLast[c].check = 0 \/ checks[tcLast[c].check].state # "resolved"
         THEN Absent
         ELSE checks[tcLast[c].check].value

\* The record of caller c's call that took path h and was handed promise p.
TcCall(c, h, p) == [how |-> h, check |-> p, n |-> 1 - tcLast[c].n]

\* A variant of testConnection without the test of line 214.
TestConnectionNoJoin(c) ==
    /\ c = "load" => tcLast[c].how = "none"
    /\ IF isInitialized
       THEN /\ tcLast' = [tcLast EXCEPT ![c] = TcCall(c, "cached", 0)]
            /\ UNCHANGED <<connectionAttempts, connectionPromise, checks>>
       ELSE /\ FreeChecks # {}
            /\ connectionPromise' = NewCheck
            /\ tcLast' = [tcLast EXCEPT ![c] = TcCall(c, "created", NewCheck)]
            /\ IF connectionAttempts >= 3
               THEN /\ checks' = [checks EXCEPT ![NewCheck] =
                                    [state |-> "resolved",
                                     value |-> isInitialized,
                                     probe |-> FALSE, timer |-> "armed"]]
                    /\ UNCHANGED connectionAttempts
               ELSE /\ connectionAttempts' = connectionAttempts + 1
                    /\ checks' = [checks EXCEPT ![NewCheck] =
                                    [state |-> "pending", value |-> FALSE,
                                     probe |-> TRUE, timer |-> "none"]]
    /\ UNCHANGED isInitialized
    /\ UNCHANGED <<storeVars, authVars, peer, sessVars>>

\* A variant of testConnection without the limit of lines 220-223.
TestConnectionNoLimit(c) ==
    /\ c = "load" => tcLast[c].how = "none"
    /\ IF isInitialized
       THEN /\ tcLast' = [tcLast EXCEPT ![c] = TcCall(c, "cached", 0)]
            /\ UNCHANGED <<connectionAttempts, connectionPromise, checks>>
       ELSE IF connectionPromise # 0
       THEN /\ tcLast' = [tcLast EXCEPT
                            ![c] = TcCall(c, "joined", connectionPromise)]
            /\ UNCHANGED <<connectionAttempts, connectionPromise, checks>>
       ELSE /\ FreeChecks # {}
            /\ connectionPromise' = NewCheck
            /\ tcLast' = [tcLast EXCEPT ![c] = TcCall(c, "created", NewCheck)]
            /\ connectionAttempts' = connectionAttempts + 1
            /\ checks' = [checks EXCEPT ![NewCheck] =
                            [state |-> "pending", value |-> FALSE,
                             probe |-> TRUE, timer |-> "none"]]
    /\ UNCHANGED isInitialized
    /\ UNCHANGED <<storeVars, authVars, peer, sessVars>>

\* testConnection(), lines 209-250, up to its first suspension.  Line 211
\* answers from the flag, line 214 hands out the promise in connectionPromise,
\* and lines 217-249 create a promise: at the limit of lines 220-223 it
\* resolves at once with isInitialized and the finally block arms the
\* timeout; below it the counter is incremented and the query of line 228 is
\* issued.  The load-time timer of lines 253-255 calls once.
TestConnection(c) ==
    /\ c = "load" => tcLast[c].how = "none"
    /\ IF isInitialized
       THEN /\ tcLast' = [tcLast EXCEPT ![c] = TcCall(c, "cached", 0)]
            /\ UNCHANGED <<connectionAttempts, connectionPromise, checks>>
       ELSE IF connectionPromise # 0
       THEN /\ tcLast' = [tcLast EXCEPT
                            ![c] = TcCall(c, "joined", connectionPromise)]
            /\ UNCHANGED <<connectionAttempts, connectionPromise, checks>>
       ELSE /\ FreeChecks # {}
            /\ connectionPromise' = NewCheck
            /\ tcLast' = [tcLast EXCEPT ![c] = TcCall(c, "created", NewCheck)]
            /\ IF connectionAttempts >= 3
               THEN /\ checks' = [checks EXCEPT ![NewCheck] =
                                    [state |-> "resolved",
                                     value |-> isInitialized,
                                     probe |-> FALSE, timer |-> "armed"]]
                    /\ UNCHANGED connectionAttempts
               ELSE /\ connectionAttempts' = connectionAttempts + 1
                    /\ checks' = [checks EXCEPT ![NewCheck] =
                                    [state |-> "pending", value |-> FALSE,
                                     probe |-> TRUE, timer |-> "none"]]
    /\ UNCHANGED isInitialized
    /\ UNCHANGED <<storeVars, authVars, peer, sessVars>>

\* The metadata query of line 228 ends, lines 230-246: with an error
\* (false), without one (the flag is set, true) or by an exception (false);
\* the finally block arms the timeout.
ProbeOutcomes == {"ok", "error", "thrown"}
ProbeDone(p, o) ==
    /\ p \in Probing
    /\ o \in ProbeOutcomes
    /\ isInitialized' = IF o = "ok" THEN TRUE ELSE isInitialized
    /\ checks' = [checks EXCEPT ![p] = [@ EXCEPT !.state = "resolved",
                                                 !.value = (o = "ok"),
                                                 !.timer = "armed"]]
    /\ UNCHANGED <<connectionAttempts, connectionPromise, tcLast>>
    /\ UNCHANGED <<storeVars, authVars, peer, sessVars>>

\* A variant of MemoExpires whose callback leaves connectionPromise alone.
MemoExpiresKeeps(p) ==
    /\ checks[p].timer = "armed"
    /\ checks' = [checks EXCEPT ![p] = [@ EXCEPT !.timer = "fired"]]
    /\ UNCHANGED <<isInitialized, connectionAttempts, connectionPromise,
                   tcLast>>
    /\ UNCHANGED <<storeVars, authVars, peer, sessVars>>

\* The timeout of lines 243-245 fires, 2000 ms after the promise settled.
MemoExpires(p) ==
    /\ checks[p].timer = "armed"
    /\ checks' = [checks EXCEPT ![p] = [@ EXCEPT !.timer = "fired"]]
    /\ connectionPromise' = 0
    /\ UNCHANGED <<isInitialized, connectionAttempts, tcLast>>
    /\ UNCHANGED <<storeVars, authVars, peer, sessVars>>

\* getConnectionStatus(), lines 271-274.
GetConnectionStatus ==
    [isInitialized |-> isInitialized, connectionAttempts |-> connectionAttempts]

\* ------------------------------------------------------- session utilities
\* const fiveMinutes = 5 * 60 (line 290), in seconds.
fiveMinutes == 300

\* getSession() found no session (null).
NoSession == [user |-> "<none>"]

\* The sessions getSession() may deliver at clock reading n: without
\* expires_at (the field is optional), or expiring just before n, just inside,
\* at and just beyond n + fiveMinutes.
Nows == 1..MaxNow
ExpiresAts(n) ==
    {e \in {n - 1, n + fiveMinutes - 1, n + fiveMinutes, n + fiveMinutes + 1} :
        e > 0}
Sessions(n) ==
    {[user |-> "u1"]} \cup {[user |-> "u1", expires_at |-> e] : e \in ExpiresAts(n)}

\* No checkAndRefreshAuth call is under way.  session and now are what lines
\* 280 and 289 read, refreshCalls counts the refreshSession() calls, outcome
\* is how refreshSession() ended ("none": not called), thrown tells whether
\* an awaited call threw, result is the value returned.
RefreshIdle == [pc |-> "idle", session |-> NoSession, now |-> 0,
                refreshCalls |-> 0, outcome |-> "none", thrown |-> FALSE,
                result |-> FALSE]

\* A variant of RefreshDue that also refreshes at exactly now + fiveMinutes.
RefreshDueInclusive(session, n) ==
    /\ "expires_at" \in DOMAIN session
    /\ session.expires_at <= n + fiveMinutes

\* The test of line 292: expiresAt && expiresAt < now + fiveMinutes.
RefreshDue(session, n) ==
    /\ "expires_at" \in DOMAIN session
    /\ session.expires_at # 0
    /\ session.expires_at < n + fiveMinutes

\* checkAndRefreshAuth() up to its first await, lines 277-280.
CheckAndRefreshAuth ==
    /\ refresh.pc \in {"idle", "returned"}
    /\ refresh' = [RefreshIdle EXCEPT !.pc = "getSession"]
    /\ UNCHANGED <<storeVars, authVars, peer, connVars, logout, reset, prefs>>

\* getSession() ends, lines 280-305: it throws (catch, line 306: false),
\* delivers no session (false), or delivers session s, read at clock n: the
\* call awaits refreshSession() when the test of line 292 holds and returns
\* true otherwise.
GetSessionOutcomes == {"thrown", "none", "session"}
RefreshGetSession(o, s, n) ==
    /\ refresh.pc = "getSession"
    /\ o \in GetSessionOutcomes /\ n \in Nows /\ s \in Sessions(n)
    /\ refresh' =
          IF o = "thrown"
          THEN [refresh EXCEPT !.pc = "returned", !.thrown = TRUE,
                               !.result = FALSE]
          ELSE IF o = "none"
          THEN [refresh EXCEPT !.pc = "returned", !.result = FALSE]
          ELSE IF RefreshDue(s, n)
          THEN [refresh EXCEPT !.pc = "refresh", !.session = s, !.now = n,
                               !.refreshCalls = @ + 1]
          ELSE [refresh EXCEPT !.pc = "returned", !.session = s, !.now = n,
                               !.result = TRUE]
    /\ UNCHANGED <<storeVars, authVars, peer, connVars, logout, reset, prefs>>

\* refreshSession() ends, lines 294-302: with an error (false), with a
\* session (true), with neither (false), or by throwing (catch: false).
RefreshOutcomes == {"session", "null", "error", "thrown"}
RefreshSessionDone(o) ==
    /\ refresh.pc = "refresh"
    /\ o \in RefreshOutcomes
    /\ refresh' = [refresh EXCEPT !.pc = "returned", !.outcome = o,
                                  !.thrown = (o = "thrown"),
                                  !.result = (o = "session")]
    /\ UNCHANGED <<storeVars, authVars, peer, connVars, logout, reset, prefs>>
\* ----------------------------------------------------------------- logoutUser
\* The two preference keys logoutUser clears, and any other key of the
\* application in localStorage.
RememberKey == "nesttask_remember_me"
SavedEmailKey == "nesttask_saved_email"
OtherKey == "<any other key>"
PrefKeys == {RememberKey, SavedEmailKey, OtherKey}

\* signOuts counts the sign-out calls and scope is their scope; removed are
\* the keys this call passed to localStorage.removeItem.
LogoutIdle == [pc |-> "idle", signOuts |-> 0, scope |-> "none",
               error |-> NoError, raised |-> NoError, removed |-> {},
               before |-> {}]

\* catch (error) of logoutUser, lines 239-242.
LogoutThrow(l, e) ==
    [l EXCEPT !.pc = "rejected", !.error = e,
              !.raised = NewError("Failed to sign out. Please try again.")]

\* A variant of LogoutCleared that clears the whole of localStorage.
LogoutClearedAll == PrefKeys

\* The keys of localStorage.removeItem at lines 237-238.
LogoutCleared == {RememberKey, SavedEmailKey}

\* logoutUser() up to its await, lines 229-233.
LogoutUser ==
    /\ logout.pc \in {"idle", "returned", "rejected"}
    /\ logout' = [LogoutIdle EXCEPT !.pc = "signOut", !.signOuts = 1,
                                    !.scope = "local"]
    /\ calls' = [calls EXCEPT ![LogoutSignOutCall] = NoCall]
    /\ UNCHANGED <<hasIDB, dbVersion, objectStoreNames, keyval, localStorage,
                   ncalls, txQueue, last, expected, lsWriter>>
    /\ UNCHANGED <<authVars, peer, connVars, refresh, reset, prefs>>

\* The sign-out resolves with {error} (line 234 throws it) or throws.
LogoutSignOutFails(e) ==
    /\ logout.pc = "signOut"
    /\ logout' = LogoutThrow(logout, e)
    /\ UNCHANGED <<storeVars, authVars, peer, connVars, refresh, reset, prefs>>

\* The sign-out clears the persisted session through the adapter.
LogoutSignOutRemoves ==
    /\ logout.pc = "signOut"
    /\ RemoveItem(LogoutSignOutCall, AuthKey)
    /\ logout' = [logout EXCEPT !.pc = "signOutWait"]
    /\ UNCHANGED ncalls
    /\ UNCHANGED <<authVars, peer, connVars, refresh, reset, prefs>>

\* await supabase.auth.signOut(...) returns without error; lines 237-238
\* clear the two preference keys.
LogoutSignOutDone ==
    /\ logout.pc = "signOutWait"
    /\ Resolved(LogoutSignOutCall)
    /\ prefs' = prefs \ LogoutCleared
    /\ logout' = [logout EXCEPT !.pc = "returned", !.removed = LogoutCleared,
                                !.before = prefs]
    /\ UNCHANGED <<storeVars, authVars, peer, connVars, refresh, reset>>

\* The application stores a preference (or anything else) in localStorage.
AppSetsPref(k) ==
    /\ k \notin prefs
    /\ prefs' = prefs \cup {k}
    /\ UNCHANGED <<storeVars, authVars, peer, connVars, refresh, logout, reset>>

\* -------------------------------------------------------------- resetPassword
ResetIdle == [pc |-> "idle", email |-> FALSE, idCalls |-> 0,
              error |-> NoError, raised |-> NoError]

\* catch (error) of resetPassword, lines 266-269.
ResetThrow(r, e) ==
    [r EXCEPT !.pc = "rejected", !.error = e,
              !.raised = NewError(
                  IF GetAuthErrorMessage(e) = ""
                  THEN "Failed to send password reset email. Please try again."
                  ELSE GetAuthErrorMessage(e))]

\* resetPassword(email) up to its await, lines 245-258.
ResetPassword(e) ==
    /\ reset.pc \in {"idle", "returned", "rejected"}
    /\ LET r == [ResetIdle EXCEPT !.email = e] IN
       IF ~e
       THEN reset' = ResetThrow(r, NewError("Email is required"))
       ELSE reset' = [r EXCEPT !.pc = "request", !.idCalls = 1]
    /\ UNCHANGED <<storeVars, authVars, peer, connVars, refresh, logout, prefs>>

\* How resetPasswordForEmail ends.
ResetOutcomes ==
    {[how |-> "ok", err |-> NoError]}
    \cup {[how |-> h, err |-> e] :
             h \in {"returned", "thrown"}, e \in {ErrRateLimit, ErrNetwork}}

\* resetPasswordForEmail ends, lines 255-265.
ResetRequest(o) ==
    /\ reset.pc = "request"
    /\ IF o.how = "ok"
       THEN reset' = [reset EXCEPT !.pc = "returned"]
       ELSE reset' = ResetThrow(reset, o.err)
    /\ UNCHANGED <<storeVars, authVars, peer, connVars, refresh, logout, prefs>>

\* --------------------------------------------- the adapter's environment
\* A setItem by someone else disturbs a loginUser call that is under way.
Disturbed == IF login.pc \in {"signOut", "signOutWait", "signIn"}
             THEN [login EXCEPT !.quiet = FALSE] ELSE login

\* The identity client (any holder of the storage option) calls the adapter.
ClientGet ==
    /\ ncalls < MaxCalls
    /\ \E k \in Keys : GetItem(ncalls + 1, k)
    /\ ncalls' = ncalls + 1
    /\ UNCHANGED authVars
    /\ UNCHANGED extVars

ClientSet ==
    /\ ncalls < MaxCalls
    /\ \E k \in Keys, v \in Tokens : SetItem(ncalls + 1, k, v)
    /\ ncalls' = ncalls + 1
    /\ login' = Disturbed
    /\ UNCHANGED <<signup, registered, users, trigger>>
    /\ UNCHANGED extVars

ClientRemove ==
    /\ ncalls < MaxCalls
    /\ \E k \in Keys : RemoveItem(ncalls + 1, k)
    /\ ncalls' = ncalls + 1
    /\ UNCHANGED authVars
    /\ UNCHANGED extVars

\* ------------------------------------------------------------------- specs
\* The page has loaded: window either has indexedDB or not, for the whole
\* behaviour.  The database 'supabase-auth' does not exist yet (version 0), or
\* an earlier page load left it at version 1 with its 'keyval' store (a
\* getItem or setItem opened it first, lines 20-24 and 66-70).  Both stores
\* hold no entry.
StoreInit ==
    /\ hasIDB \in BOOLEAN
    /\ dbVersion \in (IF hasIDB THEN {0, 1} ELSE {0})
    /\ objectStoreNames = (IF dbVersion = 1 THEN {"keyval"} ELSE {})
    /\ keyval = [k \in Keys |-> Absent]
    /\ localStorage = [k \in Keys |-> Absent]
    /\ calls = [c \in CallIds |-> NoCall]
    /\ ncalls = 0
    /\ txQueue = <<>>
    /\ last = NoLast
    /\ expected = [k \in Keys |-> "unknown"]
    /\ lsWriter = [k \in Keys |-> NoWriter]

\* Account "u1" is registered with the provider and has no profile row yet.
AuthInit ==
    /\ login = LoginIdle
    /\ signup = SignupIdle
    /\ registered = {"u1"}
    /\ users = {}
    /\ trigger = {}

\* No connection test was made; no utility call is under way.
ExtInit ==
    /\ peer = PeerIdle
    /\ isInitialized = FALSE
    /\ connectionAttempts = 0
    /\ connectionPromise = 0
    /\ checks = [p \in 1..MaxChecks |-> NoCheck]
    /\ tcLast = [c \in Callers |-> NoTc]
    /\ refresh = RefreshIdle
    /\ logout = LogoutIdle
    /\ reset = ResetIdle
    /\ prefs = {}

Init == StoreInit /\ AuthInit /\ ExtInit

vars == <<storeVars, authVars, extVars>>

\* The adapter under any use by the identity client.
Next ==
    \/ ClientGet
    \/ ClientSet
    \/ ClientRemove
    \/ \E c \in CallIds : Callback(c)

Spec == Init /\ [][Next]_vars

\* The adapter under any use by the identity client, with the part of
\* loginUser that touches the two stores (up to the first sign-in call).
NextLoginStore ==
    \/ ClientGet
    \/ ClientSet
    \/ ClientRemove
    \/ \E c \in CallIds : Callback(c)
    \/ \E e, p \in BOOLEAN : LoginUser(e, p)
    \/ LoginSignOutFails
    \/ LoginSignOutRemoves
    \/ LoginSignOutDone

SpecLoginStore == Init /\ [][NextLoginStore]_vars

\* The Auth Facade: loginUser and signupUser against the identity provider
\* and the users table; the adapter runs only for their sign-outs.
NextAuth ==
    \/ \E e, p \in BOOLEAN : LoginUser(e, p)
    \/ LoginSignOutFails
    \/ LoginSignOutRemoves
    \/ LoginSignOutDone
    \/ \E o \in SignInOutcomes : LoginSignIn(o)
    \/ LoginBackoffDone
    \/ \E o \in {"row", "PGRST116", "error"} : LoginProfile(o)
    \/ \E o \in InsertOutcomes : LoginInsert(o)
    \/ \E o \in {"ok", "error"} : LoginUpdate(o)
    \/ \E present \in SignupInputs : SignupUser(present)
    \/ \E o \in SignUpOutcomes : SignupSignUp(o)
    \/ SignupWaitDone
    \/ \E o \in {"rows", "error"} : SignupSelect(o)
    \/ \E o \in {"row", "error"} : SignupInsert(o)
    \/ SignupSignOutThrows
    \/ SignupSignOutFails
    \/ SignupSignOutRemoves
    \/ SignupSignOutDone
    \/ TriggerCreatesProfile
    \/ \E c \in {LoginSignOutCall, SignupSignOutCall} : RemoveCallback(c)

SpecAuth == Init /\ [][NextAuth]_vars

\* The four facade operations under a caller that awaits each call before
\* it makes the next: a call starts when no other call is under way, and the
\* caller takes the outcome (a User, nothing, or the raised error) away.
OthersIdle(rs) == \A r \in rs : r.pc = "idle"

CallLogin(e, p) ==
    /\ OthersIdle({signup, logout, reset})
    /\ LoginUser(e, p)

CallSignup(present) ==
    /\ OthersIdle({login, logout, reset})
    /\ SignupUser(present)

CallLogout ==
    /\ OthersIdle({login, signup, reset})
    /\ LogoutUser

CallReset(e) ==
    /\ OthersIdle({login, signup, logout})
    /\ ResetPassword(e)

TakeOutcome ==
    /\ \E r \in {login, signup, logout, reset} : r.pc \in {"returned", "rejected"}
    /\ login' = LoginIdle
    /\ signup' = SignupIdle
    /\ logout' = LogoutIdle
    /\ reset' = ResetIdle
    /\ UNCHANGED <<storeVars, registered, users, trigger, peer, connVars,
                   refresh, prefs>>

NextFacade ==
    \/ \E e, p \in BOOLEAN : CallLogin(e, p)
    \/ LoginSignOutFails
    \/ LoginSignOutRemoves
    \/ LoginSignOutDone
    \/ \E o \in SignInOutcomes : LoginSignIn(o)
    \/ LoginBackoffDone
    \/ \E o \in {"row", "PGRST116", "error"} : LoginProfile(o)
    \/ \E o \in InsertOutcomes : LoginInsert(o)
    \/ \E o \in {"ok", "error"} : LoginUpdate(o)
    \/ \E present \in SUBSET SignupFields : CallSignup(present)
    \/ \E o \in SignUpOutcomes : SignupSignUp(o)
    \/ SignupWaitDone
    \/ \E o \in {"rows", "error"} : SignupSelect(o)
    \/ \E o \in {"row", "error"} : SignupInsert(o)
    \/ SignupSignOutThrows
    \/ SignupSignOutFails
    \/ SignupSignOutRemoves
    \/ SignupSignOutDone
    \/ TriggerCreatesProfile
    \/ CallLogout
    \/ \E e \in {ErrNetwork, ErrRateLimit} : LogoutSignOutFails(e)
    \/ LogoutSignOutRemoves
    \/ LogoutSignOutDone
    \/ \E e \in BOOLEAN : CallReset(e)
    \/ \E o \in ResetOutcomes : ResetRequest(o)
    \/ \E c \in {LoginSignOutCall, SignupSignOutCall, LogoutSignOutCall} :
          RemoveCallback(c)
    \/ TakeOutcome

SpecFacade == Init /\ [][NextFacade]_vars

\* Two loginUser calls at once: the first in full, the second from its
\* profile query on.
NextLoginPair ==
    \/ \E e, p \in BOOLEAN : LoginUser(e, p)
    \/ LoginSignOutFails
    \/ LoginSignOutRemoves
    \/ LoginSignOutDone
    \/ \E o \in SignInOutcomes : LoginSignIn(o)
    \/ LoginBackoffDone
    \/ \E o \in {"row", "PGRST116", "error"} : LoginProfile(o)
    \/ \E o \in InsertOutcomes : LoginInsert(o)
    \/ \E o \in {"ok", "error"} : LoginUpdate(o)
    \/ \E u \in {"u1", "u2"} : PeerSignIn(u)
    \/ \E o \in {"row", "PGRST116", "error"} : PeerProfile(o)
    \/ \E o \in InsertOutcomes : PeerInsert(o)
    \/ \E o \in {"ok", "error"} : PeerUpdate(o)
    \/ RemoveCallback(LoginSignOutCall)

SpecLoginPair == Init /\ [][NextLoginPair]_vars

\* testConnection under the load-time call and any calls of the application.
NextConnection ==
    \/ \E c \in Callers : TestConnection(c)
    \/ \E p \in 1..MaxChecks, o \in ProbeOutcomes : ProbeDone(p, o)
    \/ \E p \in 1..MaxChecks : MemoExpires(p)

SpecConnection == Init /\ [][NextConnection]_vars

\* The session utilities: checkAndRefreshAuth and logoutUser, while the
\* application keeps entries of its own in localStorage.
NextSession ==
    \/ CheckAndRefreshAuth
    \/ \E o \in GetSessionOutcomes, n \in Nows :
          \E s \in Sessions(n) : RefreshGetSession(o, s, n)
    \/ \E o \in RefreshOutcomes : RefreshSessionDone(o)
    \/ \E k \in PrefKeys : AppSetsPref(k)
    \/ LogoutUser
    \/ \E e \in {ErrNetwork, ErrRateLimit} : LogoutSignOutFails(e)
    \/ LogoutSignOutRemoves
    \/ LogoutSignOutDone
    \/ RemoveCallback(LogoutSignOutCall)

SpecSession == Init /\ [][NextSession]_vars

\* ================================================================= claims
\* null or undefined: no value.
NoValue(x) == x \in {Null, Undefined}

\* C1: every call of getItem, setItem or removeItem resolves, whatever the
\* durable store does; no call stays pending for ever.  Stated on states: a
\* call that was issued has resolved or still has a callback registered that
\* resolves it.
C1_EveryCallResolves ==
    \A c \in CallIds : Issued(c) => (Resolved(c) \/ Live(c))

\* C2: getItem(k) returns the durable value when the durable read succeeds
\* and k is present there; on a durable failure or when k is missing from the
\* durable store it returns the localStorage value; null when k is in neither
\* (null and undefined both count as "no value" here).
C2_Claimed ==
    IF last.path = "requestSuccess" /\ last.durable # Absent THEN last.durable
    ELSE IF last.simple # Absent THEN last.simple
    ELSE Null

C2_GetItemResult ==
    last.op = "getItem" =>
        IF C2_Claimed = Null THEN NoValue(last.result)
        ELSE last.result = C2_Claimed

\* C3: the value of a setItem reaches localStorage only when its durable
\* write has finished (transaction complete, or the open request errored, or
\* there is no indexedDB): a value held by localStorage was written by a
\* setItem call that is no longer pending, and a setItem that resolved on
\* tx.oncomplete left its value in both stores.
C3_MirrorAfterDurable ==
    /\ \A k \in Keys :
          localStorage[k] \in Tokens =>
             /\ lsWriter[k] \in 1..MaxCalls
             /\ Resolved(lsWriter[k])
    /\ (last.op = "setItem" /\ last.path = "txComplete") =>
          (last.durable = last.val /\ last.simple = last.val)

\* C3 witness: a setItem resolved on tx.oncomplete and localStorage holds its
\* value, while a later setItem of another value is still in its transaction.
C3_Witness ==
    /\ last.op = "setItem" /\ last.path = "txComplete"
    /\ lsWriter[last.key] = last.id
    /\ localStorage[last.key] = last.val
    /\ \E c \in CallIds :
          /\ calls[c].op = "setItem" /\ calls[c].phase = "tx"
          /\ calls[c].key = last.key /\ calls[c].val # last.val

\* C4: a resolved setItem(k, v) followed by getItem(k), with no other write
\* to k in between, returns v, whatever the durable store did during the set
\* and during the get.
C4_SetThenGet ==
    (last.op = "getItem" /\ last.expect \in Tokens) =>
        last.result = last.expect

\* C5: a resolved removeItem(k) followed by getItem(k), with no other write
\* to k in between, returns null (no value), on the durable path and on the
\* fallback path.
C5_RemoveThenGet ==
    (last.op = "getItem" /\ last.expect = "removed") => NoValue(last.result)

\* C6: whenever no adapter operation is in flight, the durable store (where
\* the browser has one) and localStorage hold the same entry for the
\* session-token key.
C6_StoresAgree ==
    (hasIDB /\ \A c \in CallIds : ~InFlight(c)) =>
        DurableEntry(AuthKey) = localStorage[AuthKey]

\* C7: once an open of the database has succeeded the 'keyval' container
\* exists, whichever operation opened it first, and no operation starts a
\* transaction on a database that lacks it.
C7_ContainerExists ==
    /\ dbVersion = 1 => "keyval" \in objectStoreNames
    /\ \A c \in CallIds : calls[c].phase # "threw"

\* C10: at the first signInWithPassword call of a loginUser call with both
\* fields present, a read of the session-token key through the adapter
\* returns null (no value): the cached token was evicted.  Only logins that
\* began with no setItem pending, and with no setItem issued since, are held
\* to it.
C10_EvictedBeforeSignIn ==
    (login.pc = "signIn" /\ login.attempt = 1 /\ login.quiet) =>
        \A r \in GetItemReads(AuthKey) : NoValue(r)

\* C8: the sign-in of loginUser is retried only after a transient failure
\* (status 429, message containing "network", code ETIMEDOUT); when every
\* attempt fails transiently there are exactly 3 attempts, with waits of 500
\* and 1000 ms between them; a non-transient failure and a success end the
\* attempts.  Stated on the states where retryOperation has finished.
C8_RetryDone ==
    /\ login.pc \in {"profile", "insert", "update", "returned", "rejected"}
    /\ login.log # <<>>

C8_RetryOnlyTransient ==
    C8_RetryDone =>
        LET n == Len(login.log) IN
        /\ \A i \in 1..(n - 1) :
              login.log[i].how \in {"returned", "thrown"} /\ login.log[i].transient
        /\ (\A i \in 1..n : login.log[i].transient) =>
              /\ n = maxRetries
              /\ SubSeq(login.waits, 1, 2) = <<500, 1000>>
        /\ ~login.log[1].transient => (n = 1 /\ login.waits = <<>>)

\* C9: loginUser and signupUser called with a required field missing reject
\* before any call to the identity client or the relational store.
C9_RejectBeforeCalls ==
    /\ (login.pc # "idle" /\ (~login.email \/ ~login.password)) =>
          (login.pc = "rejected" /\ login.idCalls = 0 /\ login.dbCalls = 0)
    /\ (signup.pc # "idle" /\ signup.fields # SignupFields) =>
          (signup.pc = "rejected" /\ signup.idCalls = 0 /\ signup.dbCalls = 0)

\* C9 witness: a login without password and a signup without phone have
\* been rejected, while other calls did reach the provider and the table.
C9_Witness ==
    /\ login.pc = "rejected" /\ login.email /\ ~login.password
    /\ login.error = NewError("Email and password are required")
    /\ signup.pc = "rejected" /\ signup.fields = SignupFields \ {"phone"}
    /\ signup.error = NewError("All fields are required")
    /\ users # {}

\* C11: a loginUser call that authenticated an account, found no profile row
\* and whose insert the store did not fail (it stored the row, or refused it
\* only because the row exists) returns a User with the account's id and role
\* "user", and the table holds exactly one row for the account; also for two
\* concurrent calls for the same account.
C11_Created(c) ==
    /\ c.pc \in {"returned", "rejected"}
    /\ c.insert \in {"row", "duplicate"}

C11_OneRowOneUser ==
    \A c \in {login, peer} :
        C11_Created(c) =>
            /\ c.pc = "returned"
            /\ c.result = [id |-> c.user, role |-> "user"]
            /\ Cardinality({r \in users : r.id = c.user}) = 1

\* C12: every row of table users has the id of an account of the identity
\* provider, a call that wrote a row wrote it under the id of the account it
\* had authenticated (and returns that row), and no step of this layer
\* removes a row.
C12_IdsFromProvider ==
    /\ \A r \in users : r.id \in registered
    /\ (login.insert \in {"row", "noData"}) =>
          \E r \in users : r.id = login.user
    /\ (login.pc = "returned") =>
          (login.result.id = login.user /\ login.result \in users)
    /\ (signup.pc = "returned") =>
          (signup.result.id = signup.user /\ signup.result \in users)

C12_RowIdsAndNoDelete ==
    []C12_IdsFromProvider /\ [][users \subseteq users']_vars

\* C12 witness: loginUser wrote the row of u1 and signupUser the row of u2.
C12_Witness ==
    /\ login.pc = "returned" /\ login.insert = "row" /\ login.user = "u1"
    /\ signup.pc = "returned" /\ signup.dbCalls = 2 /\ signup.user = "u2"
    /\ users = {LoginRow("u1"), SignupRow("u2")}

\* C13: a facade call that fails raises one new Error whose message is a
\* mapped, user-readable one, never the object the provider or the store
\* returned or threw; a call that returns normally has succeeded.
HumanMessages ==
    FacadeMessages \cup
    {"Too many attempts. Please try again later.",
     "Network error. Please check your connection.",
     "Invalid email or password", "Email already registered",
     "An unexpected error occurred. Please try again.",
     "Failed to sign out. Please try again.",
     "Failed to send password reset email. Please try again."}

C13_RaisedOk(c) ==
    c.pc = "rejected" =>
        /\ c.raised \in {NewError(m) : m \in HumanMessages}
        /\ c.error \in ProviderErrors \cup {ErrRegistered} => c.raised # c.error

C13_Normalized ==
    /\ C13_RaisedOk(login) /\ C13_RaisedOk(signup)
    /\ C13_RaisedOk(logout) /\ C13_RaisedOk(reset)
    /\ login.pc = "returned" =>
          (login.result.id = login.user /\ login.raised = NoError)
    /\ signup.pc = "returned" =>
          (signup.result.id = signup.user /\ signup.raised = NoError)
    /\ logout.pc = "returned" => (logout.error = NoError /\ logout.raised = NoError)
    /\ reset.pc = "returned" => (reset.error = NoError /\ reset.raised = NoError)

\* C13 witness: the provider refused the credentials and loginUser raised the
\* mapped message, not the provider's error.
C13_Witness ==
    /\ login.pc = "rejected" /\ login.error = ErrInvalid
    /\ login.raised = NewError("Invalid email or password")

\* C14: when signupUser found no profile row and its insert failed, it has
\* called one sign-out, a full one (no local scope), before it raises, and
\* the call does not return a User: it ends with an error.
C14_CompensatingSignOut ==
    signup.insert = "error" =>
        /\ signup.signOuts = 1
        /\ signup.scope = "global"
        /\ signup.pc \in {"signOut", "signOutWait", "rejected"}
        /\ signup.result = Absent
        /\ signup.pc = "rejected" => signup.raised # NoError

\* C14 witness: the insert failed, the sign-out cleared the stored session
\* through the adapter and the call ended with the error.
C14_Witness ==
    /\ signup.insert = "error" /\ signup.pc = "rejected"
    /\ Resolved(SignupSignOutCall)
    /\ signup.raised = NewError("Failed to create user profile")

\* C15: a loginUser call that found the profile row issues one update of
\* last_active (its second relational call) and returns the User whether the
\* update succeeded or failed.
C15_LastActiveBestEffort ==
    /\ login.pc = "update" => login.dbCalls = 2
    /\ login.update # "none" =>
          /\ login.pc = "returned"
          /\ login.dbCalls = 2
          /\ login.result \in users /\ login.result.id = login.user

\* C15 witness: the update failed and the call returned the User.
C15_Witness ==
    /\ login.update = "error" /\ login.pc = "returned"
    /\ login.result = RowOf(login.user)

\* C16: testConnection is single-flight: at most one metadata query is in
\* flight in every reachable state, and a call made while one is in flight
\* is handed the promise of that check and issues no query.
C16_OneProbe == Cardinality(Probing) <= 1
C16_JoinStep ==
    \A c \in Callers :
        (tcLast'[c] # tcLast[c] /\ Probing # {}) =>
            /\ tcLast'[c].how = "joined"
            /\ tcLast'[c].check \in Probing
            /\ connectionAttempts' = connectionAttempts
            /\ checks' = checks
C16_SingleFlight == []C16_OneProbe /\ [][C16_JoinStep]_vars

\* C16 witness: the application called while the load-time check was in
\* flight; both hold the same pending promise and one query was issued.
C16_Witness ==
    /\ tcLast["load"].how = "created" /\ tcLast["app"].how = "joined"
    /\ tcLast["app"].check = tcLast["load"].check
    /\ tcLast["load"].check \in Probing
    /\ connectionAttempts = 1

\* Every promise testConnection created has settled and its timeout has
\* fired: the memo of the last check has expired.
MemoExpired ==
    /\ \E p \in 1..MaxChecks : checks[p].timer = "fired"
    /\ \A p \in 1..MaxChecks :
          checks[p].state # "none" => checks[p].timer = "fired"

\* C17 as stated: a call made after the memo has expired issues a new
\* metadata query and the count increments.
C17_ReprobeStep ==
    \A c \in Callers :
        (tcLast'[c] # tcLast[c] /\ MemoExpired) =>
            connectionAttempts' = connectionAttempts + 1
C17_AlwaysReprobes == [][C17_ReprobeStep]_vars

\* C17 amended: a call made after the memo has expired issues a new metadata
\* query and the count increments, provided no probe has succeeded and fewer
\* than 3 queries were issued.
C17_ReprobeUnhealthyStep ==
    \A c \in Callers :
        (/\ tcLast'[c] # tcLast[c] /\ MemoExpired
         /\ ~isInitialized /\ connectionAttempts < 3) =>
            /\ connectionAttempts' = connectionAttempts + 1
            /\ tcLast'[c].how = "created"
            /\ checks'[tcLast'[c].check].state = "pending"
            /\ checks'[tcLast'[c].check].probe
C17_ReprobesWhileUnhealthy == [][C17_ReprobeUnhealthyStep]_vars

\* C17 witness: the first check failed, its memo expired, and the next call
\* issued the second query.
C17_Witness ==
    /\ checks[1].state = "resolved" /\ ~checks[1].value
    /\ checks[1].timer = "fired"
    /\ checks[2].state = "pending" /\ checks[2].probe
    /\ connectionAttempts = 2
    /\ \E c \in Callers : tcLast[c] = [how |-> "created", check |-> 2,
                                        n |-> tcLast[c].n]

\* C18: at most 3 metadata queries are ever issued; once a probe succeeded
\* isInitialized stays true, and every later call returns true without a
\* query.
C18_AtMostThree ==
    /\ connectionAttempts <= 3
    /\ GetConnectionStatus.connectionAttempts =
          Cardinality({p \in 1..MaxChecks : checks[p].probe})
C18_CachedStep ==
    /\ isInitialized => isInitialized'
    /\ \A c \in Callers :
          (isInitialized /\ tcLast'[c] # tcLast[c]) =>
              /\ tcLast'[c].how = "cached"
              /\ TcResult(c)' = TRUE
              /\ connectionAttempts' = connectionAttempts
              /\ checks' = checks
C18_CapAndCache == []C18_AtMostThree /\ [][C18_CachedStep]_vars

\* C18 witness: the third query succeeded and a later call of the
\* application was answered from the flag.
C18_Witness ==
    /\ connectionAttempts = 3 /\ isInitialized
    /\ checks[3].probe /\ checks[3].value
    /\ tcLast["app"].how = "cached" /\ TcResult("app") = TRUE

\* C19: checkAndRefreshAuth calls refreshSession exactly once when the
\* session's expires_at is below now + 300 and not at all when it is at or
\* beyond it, absent, or there is no session; it ends only by returning a
\* boolean, which is false when there is no session, when the refresh
\* reported an error and when an awaited call threw.
C19_Expiring ==
    /\ "expires_at" \in DOMAIN refresh.session
    /\ refresh.session.expires_at < refresh.now + 300
C19_RefreshOnceNeverThrows ==
    /\ refresh.pc \in {"idle", "getSession", "refresh", "returned"}
    /\ refresh.result \in BOOLEAN
    /\ refresh.pc = "refresh" => C19_Expiring /\ refresh.refreshCalls = 1
    /\ refresh.pc = "returned" =>
          /\ refresh.refreshCalls = (IF C19_Expiring THEN 1 ELSE 0)
          /\ refresh.session = NoSession => ~refresh.result
          /\ refresh.outcome \in {"error", "null", "thrown"} =>
                ~refresh.result
          /\ refresh.thrown => ~refresh.result
          /\ (refresh.session # NoSession /\ ~C19_Expiring) => refresh.result

\* C19 witness: a session one second inside the window was refreshed once,
\* the refresh reported an error, and the call returned false.
C19_Witness ==
    /\ refresh.pc = "returned" /\ refresh.refreshCalls = 1
    /\ "expires_at" \in DOMAIN refresh.session
    /\ refresh.session.expires_at = refresh.now + 299
    /\ refresh.outcome = "error" /\ ~refresh.result

\* C20: logoutUser signs out once, with local scope; when the sign-out
\* succeeds it clears nesttask_remember_me and nesttask_saved_email and no
\* other localStorage entry of the application; when it fails the call raises
\* "Failed to sign out. Please try again." and has cleared nothing.
C20_LogoutState ==
    /\ logout.scope \in {"none", "local"}
    /\ logout.pc # "idle" => logout.signOuts = 1 /\ logout.scope = "local"
    /\ logout.pc = "returned" =>
          /\ logout.removed = {"nesttask_remember_me", "nesttask_saved_email"}
          /\ logout.raised = NoError
    /\ logout.pc = "rejected" =>
          /\ logout.raised = NewError("Failed to sign out. Please try again.")
          /\ logout.removed = {}
C20_LogoutStep ==
    /\ prefs \ {"nesttask_remember_me", "nesttask_saved_email"} \subseteq prefs'
    /\ (logout.pc # "returned" /\ logout'.pc = "returned") =>
          prefs' = prefs \ {"nesttask_remember_me", "nesttask_saved_email"}
C20_LocalSignOutTwoKeys == []C20_LogoutState /\ [][C20_LogoutStep]_vars

\* C20 witness: with both preference keys and another entry stored, the
\* call returned and only the other entry is left.
C20_Witness ==
    /\ logout.pc = "returned" /\ Resolved(LogoutSignOutCall)
    /\ logout.before = PrefKeys /\ OtherKey \in PrefKeys
    /\ prefs = {OtherKey}

\* C21: a signupUser call that failed with a provider error whose message
\* contains "duplicate key" or "already registered" raises an error with
\* exactly the message "Email already registered"; every other failure
\* raises the message the generic mapping gives for it.
C21_DuplicateMessages ==
    {"User already registered",
     "duplicate key value violates unique constraint \"users_email_key\"",
     "duplicate key value violates unique constraint \"users_pkey\""}
C21_DuplicateNormalized ==
    signup.pc = "rejected" =>
        /\ signup.error # NoError
        /\ signup.raised =
              IF signup.error.message \in C21_DuplicateMessages
              THEN NewError("Email already registered")
              ELSE NewError(GetAuthErrorMessage(signup.error))
        /\ signup.fields # SignupFields =>
              signup.raised = NewError("All fields are required")

\* C21 witness: the provider reported a duplicate-key error, which no rule
\* of the generic mapping covers, and the caller received "Email already
\* registered".
C21_Witness ==
    /\ signup.pc = "rejected" /\ signup.error = ErrDuplicate
    /\ GetAuthErrorMessage(ErrDuplicate) # "Email already registered"
    /\ signup.raised = NewError("Email already registered")

\* C22: when two writes to one key, at least one of them a setItem, were
\* pending at the same time and at least one of them committed its durable
\* write, then once the second has resolved the durable store and
\* localStorage hold the same entry for the key.
C22_RacedWritesAgree ==
    (/\ hasIDB
     /\ last.op \in {"setItem", "removeItem"} /\ last.raced # "none"
     /\ "setItem" \in {last.op, last.raced}
     /\ "txComplete" \in {last.path, last.racedPath}) =>
        last.durable = last.simple

\* C23: a signupUser call that raises an error after the provider sign-up
\* succeeded, while the new account has no profile row, has performed a
\* sign-out before raising it.
C23_SignedOutBeforeError ==
    (/\ signup.pc = "rejected" /\ signup.user # Absent
     /\ ~HasRow(signup.user)) =>
        signup.signOuts >= 1
====
